---- MODULE Spec2Model ----
(***************************************************************************)
(* The lowering pass of the ziraffe compiler (compiler/src/compiler.rs,    *)
(* symbol_table.rs, instruction.rs) as a state machine.  The input syntax  *)
(* tree (parser/src/ast.rs) is drawn in Init; the recursive descent of     *)
(* Compiler::compile_* runs in small steps over an explicit call stack.    *)
(***************************************************************************)
EXTENDS Naturals, Sequences, FiniteSets, TLC

VARIABLES
    program,    \* the input: Program::GlobalStatements(stmts)
    contracts,  \* Compiler.contracts : IndexMap<String, Contract>
    context,    \* Compiler.context   : Context
    stack,      \* the call stack of the recursive descent, innermost last
    ret,        \* the value the last finished call returned
    status,     \* "running" | "ok" | "err" | "panic"
    error,      \* the CompileError compile_program ended with
    allocated   \* history: the values numbering_temp handed out, in order

vars == <<program, contracts, context, stack, ret, status, error, allocated>>

(***************************************************************************)
(* Bounds of the model.                                                    *)
(***************************************************************************)
MaxNum == 1        \* numeric literals of the generated trees are 0..MaxNum
MaxDecls == 2      \* declarations in a generated member / parameter list
MaxTop == 2        \* statements in a generated global statement list
MaxBody == 2       \* statements in a generated function body

(***************************************************************************)
(* parser/src/ast.rs: the syntax tree.  Every node carries its location.   *)
(***************************************************************************)
NoExpr == [kind |-> "NoExpr"]         \* Option::None of an Option<Box<Expression>>
NoType == "NoType"                    \* Option::None of an Option<Type>

AstTypes == {"URL", "JSON", "Uint", "Bool", "String", "Address"}

Operators == {"Add", "Sub", "Mul", "Div", "Pow", "Assign", "And", "Or",
              "Lt", "Le", "Gt", "Ge", "Eq", "NotEq"}

Compound(l, ss, rv) ==
    [kind |-> "CompoundExpression", location |-> l, statements |-> ss, return_value |-> rv]
AssignE(l, a, b) ==
    [kind |-> "AssignExpression", location |-> l, left |-> a, operator |-> "Assign", right |-> b]
Binary(l, op, a, b) ==
    [kind |-> "BinaryExpression", location |-> l, left |-> a, operator |-> op, right |-> b]
FunctionCall(l, fn, as) ==
    [kind |-> "FunctionCallExpression", location |-> l, function_name |-> fn, arguments |-> as]
IfE(l, c, t, e) ==
    [kind |-> "IfExpression", location |-> l, condition |-> c, if_expr |-> t, else_expr |-> e]
ForEach(l, it, v, b) ==
    [kind |-> "ForEachExpression", location |-> l, iterator |-> it, vector |-> v, for_expr |-> b]
Parameters(l, ps) == [kind |-> "Parameters", location |-> l, parameters |-> ps]
Arguments(l, as) == [kind |-> "Arguments", location |-> l, arguments |-> as]
Range(l, s, e) == [kind |-> "Range", location |-> l, start |-> s, end |-> e]
Literal(l, v) == [kind |-> "Literal", location |-> l, text |-> v]
Number(l, n) == [kind |-> "Number", location |-> l, number |-> n]
Identifier(l, v) == [kind |-> "Identifier", location |-> l, name |-> v]

FunctionStatement(l, fn, ps, body, r) ==
    [kind |-> "FunctionStatement", location |-> l, function_name |-> fn,
     parameters |-> ps, expr |-> body, returns |-> r]
ContractStatement(l, cn, ms) ==
    [kind |-> "ContractStatement", location |-> l, contract_name |-> cn, members |-> ms]
InitializerStatement(l, t, v, d) ==
    [kind |-> "InitializerStatement", location |-> l, variable_type |-> t,
     variable |-> v, default |-> d]
MemberStatement(l, ss) == [kind |-> "MemberStatement", location |-> l, statements |-> ss]
ExpressionStatement(l, e) == [kind |-> "Expression", location |-> l, expression |-> e]

(***************************************************************************)
(* BigUint::to_string: the decimal text of a number.                       *)
(***************************************************************************)
Digit(d) ==
    CASE d = 0 -> "0" [] d = 1 -> "1" [] d = 2 -> "2" [] d = 3 -> "3" [] d = 4 -> "4"
      [] d = 5 -> "5" [] d = 6 -> "6" [] d = 7 -> "7" [] d = 8 -> "8" [] d = 9 -> "9"

RECURSIVE to_string(_)
to_string(n) == IF n < 10 THEN Digit(n) ELSE to_string(n \div 10) \o Digit(n % 10)

(***************************************************************************)
(* indexmap::IndexMap as the sequence of its entries in insertion order.   *)
(***************************************************************************)
EmptyMap == <<>>

MapHas(m, k) == \E i \in 1..Len(m) : m[i].key = k

MapIndex(m, k) == CHOOSE i \in 1..Len(m) : m[i].key = k

MapGet(m, k) == m[MapIndex(m, k)].value

MapKeys(m) == [i \in 1..Len(m) |-> m[i].key]

\* mutant of MapInsert: an existing key is removed and inserted again at the end
MapInsert_reinserted(m, k, v) ==
    LET Other(e) == e.key # k
    IN  Append(SelectSeq(m, Other), [key |-> k, value |-> v])

\* IndexMap::insert: an existing key keeps its position and gets the new value;
\* a new key is appended.
MapInsert(m, k, v) ==
    IF MapHas(m, k)
    THEN [m EXCEPT ![MapIndex(m, k)] = [key |-> k, value |-> v]]
    ELSE Append(m, [key |-> k, value |-> v])

(***************************************************************************)
(* compiler/src/symbol_table.rs                                            *)
(***************************************************************************)
\* Type::get_type: ast::Type to the compiler's Type
get_type(typ) ==
    CASE typ = "URL" -> "URL" [] typ = "JSON" -> "JSON" [] typ = "Uint" -> "Uint"
      [] typ = "Bool" -> "Bool" [] typ = "String" -> "String" [] typ = "Address" -> "Address"

Symbol(id, num, typ) == [id |-> id, num |-> num, typ |-> typ]

NoSymbol == Symbol("", 0, "None")

NoneName == [some |-> FALSE, name |-> ""]       \* Option<String>::None
SomeName(n) == [some |-> TRUE, name |-> n]

\* Context::new (Default): empty stacks, no current names, counter 0, flag false
NewContext ==
    [tables |-> <<>>, current_codes |-> <<>>, current_contract |-> NoneName,
     current_function |-> NoneName, temp_number |-> 0, is_member |-> FALSE]

\* Contract::new (Default)
NewContract == [member |-> EmptyMap, functions |-> EmptyMap]

\* Function::new
NewFunction(params, r, codes) == [params |-> params, codes |-> codes, ret |-> r]

\* mutant of numbering_temp: the counter is read and never incremented
numbering_temp_stuck(ctx) == ctx

\* Context::numbering_temp: the context after the increment (the value returned
\* is its temp_number)
numbering_temp(ctx) == [ctx EXCEPT !.temp_number = @ + 1]

\* Symbol::temp_symbol: the symbol and the context after the allocation
temp_symbol(ctx) ==
    LET c == numbering_temp(ctx)
    IN  [sym |-> Symbol("_", c.temp_number, "None"), ctx |-> c]

literal_symbol(literal) == Symbol(literal, 0, "String")

\* mutant of result_symbol: the temporary is numbered before the types are compared
result_symbol_numbers_first(ctx, a, b, loc) ==
    LET c == [ctx EXCEPT !.temp_number = @ + 1]
    IN  IF a.typ = b.typ
        THEN [ok |-> TRUE, sym |-> Symbol("", c.temp_number, b.typ), ctx |-> c,
              err |-> [kind |-> "None", msg |-> "", location |-> 0]]
        ELSE [ok |-> FALSE, sym |-> NoSymbol, ctx |-> c,
              err |-> [kind |-> "TypeError", msg |-> "Binary operation Type Error",
                       location |-> loc]]

\* Symbol::result_symbol: Ok(symbol) with the context after the allocation, or
\* Err(TypeError) with the context untouched
result_symbol(ctx, a, b, loc) ==
    IF a.typ = b.typ
    THEN LET c == numbering_temp(ctx)
         IN  [ok |-> TRUE, sym |-> Symbol("", c.temp_number, b.typ), ctx |-> c,
              err |-> [kind |-> "None", msg |-> "", location |-> 0]]
    ELSE [ok |-> FALSE, sym |-> NoSymbol, ctx |-> ctx,
          err |-> [kind |-> "TypeError", msg |-> "Binary operation Type Error",
                   location |-> loc]]

\* Context::add_instruction; current_codes.last_mut().unwrap() panics on an
\* empty stack, which is HasOpenBlock being false
HasOpenBlock(ctx) == ctx.current_codes # <<>>

\* the number of instructions in the innermost open Block (0 when none is open)
OpenLen(ctx) ==
    IF HasOpenBlock(ctx) THEN Len(ctx.current_codes[Len(ctx.current_codes)]) ELSE 0

add_instruction(ctx, instruction) ==
    [ctx EXCEPT !.current_codes[Len(ctx.current_codes)] = Append(@, instruction)]

add_block(ctx) ==
    [ctx EXCEPT !.current_codes = Append(@, <<>>), !.tables = Append(@, EmptyMap)]

\* Context::pop_block: Vec::pop on tables (a no-op when empty), then
\* current_codes.pop().unwrap()
PopVec(v) == IF v = <<>> THEN v ELSE SubSeq(v, 1, Len(v) - 1)

\* mutant of pop_block: the outermost open Block is returned
pop_block_outermost(ctx) ==
    [block |-> ctx.current_codes[1],
     ctx |-> [ctx EXCEPT !.tables = PopVec(@), !.current_codes = PopVec(@)]]

\* mutant of pop_block: the symbol table is not popped
pop_block_keeps_table(ctx) ==
    [block |-> ctx.current_codes[Len(ctx.current_codes)],
     ctx |-> [ctx EXCEPT !.current_codes = PopVec(@)]]

pop_block(ctx) ==
    [block |-> ctx.current_codes[Len(ctx.current_codes)],
     ctx |-> [ctx EXCEPT !.tables = PopVec(@), !.current_codes = PopVec(@)]]

\* Context::get_symbol: innermost table first
RECURSIVE LookupFrom(_, _, _)
LookupFrom(tables, i, name) ==
    IF i = 0 THEN Symbol(name, 0, "Undefined")
    ELSE IF MapHas(tables[i], name) THEN MapGet(tables[i], name)
    ELSE LookupFrom(tables, i - 1, name)

get_symbol(ctx, name) == LookupFrom(ctx.tables, Len(ctx.tables), name)

\* Context::add_symbol; tables.last_mut().unwrap() panics on an empty stack
HasOpenTable(ctx) == ctx.tables # <<>>

add_symbol(ctx, name, sym) ==
    [ctx EXCEPT !.tables[Len(ctx.tables)] = MapInsert(@, name, sym)]

(***************************************************************************)
(* compiler/src/instruction.rs                                             *)
(***************************************************************************)
NoError == [kind |-> "None", msg |-> "", location |-> 0]

SyntaxError(msg, loc) == [kind |-> "SyntaxError", msg |-> msg, location |-> loc]

BinaryInstructions == Operators \ {"Assign"}

\* mutant of get_instruction_from_bin_op: the operands change places
get_instruction_from_bin_op_swapped(op, dst, a, b, loc) ==
    IF op \in BinaryInstructions
    THEN [ok |-> TRUE, instr |-> [op |-> op, dst |-> dst, left |-> b, right |-> a],
          err |-> NoError]
    ELSE [ok |-> FALSE, instr |-> [op |-> "None"], err |-> SyntaxError("Unreachable", loc)]

\* Instruction::get_instruction_from_bin_op
get_instruction_from_bin_op(op, dst, a, b, loc) ==
    IF op \in BinaryInstructions
    THEN [ok |-> TRUE, instr |-> [op |-> op, dst |-> dst, left |-> a, right |-> b],
          err |-> NoError]
    ELSE [ok |-> FALSE, instr |-> [op |-> "None"], err |-> SyntaxError("Unreachable", loc)]

AssignI(dst, src) == [op |-> "Assign", dst |-> dst, src |-> src]
InitI(name) == [op |-> "Init", name |-> name]
InitAssignI(name, src) == [op |-> "InitAssign", name |-> name, src |-> src]
IfI(cond, block) == [op |-> "If", cond |-> cond, block |-> block]
ElseI(cond, block) == [op |-> "Else", cond |-> cond, block |-> block]
ForI(iter, start, end, block) ==
    [op |-> "For", iter |-> iter, start |-> start, end |-> end, block |-> block]
CallI(dst, func, args) == [op |-> "Call", dst |-> dst, func |-> func, args |-> args]

(***************************************************************************)
(* compiler/src/compiler.rs: the recursive descent, one frame per call.    *)
(* A frame holds the function, its argument node, the position in the      *)
(* function's body (pc) and its locals (a: a symbol, acc: a Vec<Symbol>).   *)
(* entry is history: the number of instructions the innermost open Block   *)
(* held when a binary expression began to be compiled.  A frame stays on   *)
(* the stack when its call fails, so the final state shows where it did.   *)
(***************************************************************************)
Frame(f, node) ==
    [f |-> f, node |-> node, pc |-> 0, a |-> NoSymbol, acc |-> <<>>, entry |-> 0]

Top == stack[Len(stack)]

Running == status = "running" /\ stack # <<>>

At(f, kind, pc) == Running /\ Top.f = f /\ Top.node.kind = kind /\ Top.pc = pc

\* the caller moves to `fr` and calls `callee`
Call(fr, callee) ==
    /\ stack' = Append([stack EXCEPT ![Len(stack)] = fr], callee)
    /\ UNCHANGED <<program, ret, status, error>>

\* the innermost call returns Ok(v)
Return(v) ==
    /\ stack' = SubSeq(stack, 1, Len(stack) - 1)
    /\ ret' = v
    /\ UNCHANGED <<program, status, error>>

\* the innermost call returns Err(e); every caller propagates it with `?`
Fail(e) ==
    /\ status' = "err"
    /\ error' = e
    /\ UNCHANGED <<program, ret, stack>>

\* an unwrap() of None: the thread panics
Panic ==
    /\ status' = "panic"
    /\ UNCHANGED <<program, ret, error, stack>>

Same == UNCHANGED <<contracts, context, allocated>>

\* a temporary is allocated: r is temp_symbol's or result_symbol's value
Allocate(r) ==
    /\ context' = r.ctx
    /\ allocated' = Append(allocated, r.sym.num)

(***************************************************************************)
(* compile_program (compiler.rs 9-13, 30-39)                               *)
(***************************************************************************)
Program_Stmt ==
    /\ Running /\ Top.f = "compile_program" /\ Top.pc < Len(Top.node.statements)
    /\ Call([Top EXCEPT !.pc = @ + 1], Frame("compile_stmt", Top.node.statements[Top.pc + 1]))
    /\ Same

Program_Done ==
    /\ Running /\ Top.f = "compile_program" /\ Top.pc = Len(Top.node.statements)
    /\ stack' = <<>>
    /\ status' = "ok"
    /\ UNCHANGED <<program, ret, error>>
    /\ Same

(***************************************************************************)
(* Compiler::look_contract, Compiler::add_function (compiler.rs 277-291)   *)
(***************************************************************************)
look_contract(cs, ctx, name) ==
    [contracts |-> MapInsert(cs, name, NewContract),
     ctx |-> [ctx EXCEPT !.current_contract = SomeName(name)]]

add_function(cs, ctx, name, params, r, block) ==
    IF ctx.current_contract.some
    THEN LET cn == ctx.current_contract.name
             c == MapGet(cs, cn)
         IN  [contracts |-> MapInsert(cs, cn,
                 [c EXCEPT !.functions = MapInsert(@, name, NewFunction(params, r, block))]),
              ctx |-> [ctx EXCEPT !.current_function = SomeName(name)]]
    ELSE [contracts |-> cs, ctx |-> ctx]

(***************************************************************************)
(* compile_stmt, FunctionStatement (compiler.rs 43-61)                     *)
(***************************************************************************)
Function_Enter ==
    /\ At("compile_stmt", "FunctionStatement", 0)
    /\ context' = [context EXCEPT !.is_member = FALSE]
    /\ Call([Top EXCEPT !.pc = 1], Frame("compile_expr", Top.node.function_name))
    /\ UNCHANGED <<contracts, allocated>>

Function_Params ==
    /\ At("compile_stmt", "FunctionStatement", 1)
    /\ Call([Top EXCEPT !.pc = 2, !.a = ret], Frame("compile_param", Top.node.parameters))
    /\ Same

Function_Body ==
    /\ At("compile_stmt", "FunctionStatement", 2)
    /\ Call([Top EXCEPT !.pc = 3, !.acc = ret], Frame("compile_block", Top.node.expr))
    /\ Same

ReturnType(returns) == IF returns = NoType THEN "None" ELSE get_type(returns)

Function_Exit ==
    /\ At("compile_stmt", "FunctionStatement", 3)
    /\ LET added == add_function(contracts, context, Top.a.id, Top.acc,
                                 ReturnType(Top.node.returns), ret)
           t == temp_symbol([added.ctx EXCEPT !.is_member = TRUE])
       IN  /\ contracts' = added.contracts
           /\ Allocate(t)
           /\ Return(t.sym)

(***************************************************************************)
(* compile_stmt, ContractStatement (compiler.rs 62-72)                     *)
(***************************************************************************)
Contract_Enter ==
    /\ At("compile_stmt", "ContractStatement", 0)
    /\ Call([Top EXCEPT !.pc = 1], Frame("compile_expr", Top.node.contract_name))
    /\ Same

Contract_Members ==
    /\ At("compile_stmt", "ContractStatement", 1)
    /\ LET looked == look_contract(contracts, context, ret.id)
       IN  /\ contracts' = looked.contracts
           /\ context' = [looked.ctx EXCEPT !.is_member = TRUE]
    /\ Call([Top EXCEPT !.pc = 2], Frame("compile_stmt", Top.node.members))
    /\ UNCHANGED allocated

Contract_Exit ==
    /\ At("compile_stmt", "ContractStatement", 2)
    /\ LET t == temp_symbol([context EXCEPT !.is_member = FALSE])
       IN  Allocate(t) /\ Return(t.sym)
    /\ UNCHANGED contracts

(***************************************************************************)
(* compile_stmt, InitializerStatement (compiler.rs 73-105)                 *)
(***************************************************************************)
Init_Enter ==
    /\ At("compile_stmt", "InitializerStatement", 0)
    /\ Call([Top EXCEPT !.pc = 1], Frame("compile_expr", Top.node.variable))
    /\ Same

\* mutant of DeclaredSymbol: the declared type is never filled in
DeclaredSymbol_unfilled(symbol, variable_type) == symbol

\* lines 78-82: the declared type is used only when the name resolved to Undefined
DeclaredSymbol(symbol, variable_type) ==
    IF symbol.typ = "Undefined" THEN [symbol EXCEPT !.typ = get_type(variable_type)]
    ELSE symbol

\* lines 83-88: current_contract.as_ref().unwrap() and get_mut(..).unwrap()
Init_Member ==
    /\ At("compile_stmt", "InitializerStatement", 1)
    /\ context.is_member
    /\ LET symbol == DeclaredSymbol(ret, Top.node.variable_type)
           cn == context.current_contract.name
       IN  IF context.current_contract.some /\ MapHas(contracts, cn)
           THEN /\ contracts' = MapInsert(contracts, cn,
                       [MapGet(contracts, cn) EXCEPT !.member = MapInsert(@, symbol.id, symbol)])
                /\ Return(symbol)
           ELSE /\ Panic
                /\ UNCHANGED contracts
    /\ UNCHANGED <<context, allocated>>

\* lines 90-96: the initializer is compiled first
Init_Default ==
    /\ At("compile_stmt", "InitializerStatement", 1)
    /\ ~context.is_member
    /\ Top.node.default # NoExpr
    /\ Call([Top EXCEPT !.pc = 2, !.a = DeclaredSymbol(ret, Top.node.variable_type)],
            Frame("compile_expr", Top.node.default))
    /\ Same

\* lines 93-96, 102: InitAssign, then add_symbol
Init_Assign ==
    /\ At("compile_stmt", "InitializerStatement", 2)
    /\ IF HasOpenBlock(context) /\ HasOpenTable(context)
       THEN /\ context' = add_symbol(add_instruction(context, InitAssignI(Top.a, ret)),
                                     Top.a.id, Top.a)
            /\ Return(Top.a)
       ELSE /\ Panic
            /\ UNCHANGED context
    /\ UNCHANGED <<contracts, allocated>>

\* lines 97-102: Init, then add_symbol
Init_Plain ==
    /\ At("compile_stmt", "InitializerStatement", 1)
    /\ ~context.is_member
    /\ Top.node.default = NoExpr
    /\ LET symbol == DeclaredSymbol(ret, Top.node.variable_type)
       IN  IF HasOpenBlock(context) /\ HasOpenTable(context)
           THEN /\ context' = add_symbol(add_instruction(context, InitI(symbol)),
                                         symbol.id, symbol)
                /\ Return(symbol)
           ELSE /\ Panic
                /\ UNCHANGED context
    /\ UNCHANGED <<contracts, allocated>>

(***************************************************************************)
(* compile_stmt, MemberStatement and Expression (compiler.rs 106-112)      *)
(***************************************************************************)
Member_Stmt ==
    /\ Running /\ Top.f = "compile_stmt" /\ Top.node.kind = "MemberStatement"
    /\ Top.pc < Len(Top.node.statements)
    /\ Call([Top EXCEPT !.pc = @ + 1], Frame("compile_stmt", Top.node.statements[Top.pc + 1]))
    /\ Same

Member_Exit ==
    /\ Running /\ Top.f = "compile_stmt" /\ Top.node.kind = "MemberStatement"
    /\ Top.pc = Len(Top.node.statements)
    /\ LET t == temp_symbol(context)
       IN  Allocate(t) /\ Return(t.sym)
    /\ UNCHANGED contracts

\* the statement's value is compile_expr's: the call takes the frame's place
Stmt_Expression ==
    /\ At("compile_stmt", "Expression", 0)
    /\ stack' = [stack EXCEPT ![Len(stack)] = Frame("compile_expr", Top.node.expression)]
    /\ UNCHANGED <<program, ret, status, error>>
    /\ Same

(***************************************************************************)
(* compile_expr, CompoundExpression and AssignExpression (116-137)         *)
(***************************************************************************)
Compound_Enter ==
    /\ At("compile_expr", "CompoundExpression", 0)
    /\ Call([Top EXCEPT !.pc = 1], Frame("compile_block", Top.node))
    /\ Same

Compound_Exit ==
    /\ At("compile_expr", "CompoundExpression", 1)
    /\ LET t == temp_symbol(context)
       IN  Allocate(t) /\ Return(t.sym)
    /\ UNCHANGED contracts

Assign_Left ==
    /\ At("compile_expr", "AssignExpression", 0)
    /\ Call([Top EXCEPT !.pc = 1], Frame("compile_expr", Top.node.left))
    /\ Same

Assign_Right ==
    /\ At("compile_expr", "AssignExpression", 1)
    /\ Call([Top EXCEPT !.pc = 2, !.a = ret], Frame("compile_expr", Top.node.right))
    /\ Same

Assign_Emit ==
    /\ At("compile_expr", "AssignExpression", 2)
    /\ IF HasOpenBlock(context)
       THEN /\ context' = add_instruction(context, AssignI(Top.a, ret))
            /\ Return(Top.a)
       ELSE /\ Panic
            /\ UNCHANGED context
    /\ UNCHANGED <<contracts, allocated>>

(***************************************************************************)
(* compile_expr, BinaryExpression (compiler.rs 138-156)                    *)
(***************************************************************************)
Binary_Left ==
    /\ At("compile_expr", "BinaryExpression", 0)
    /\ Call([Top EXCEPT !.pc = 1, !.entry = OpenLen(context)],
            Frame("compile_expr", Top.node.left))
    /\ Same

Binary_Right ==
    /\ At("compile_expr", "BinaryExpression", 1)
    /\ Call([Top EXCEPT !.pc = 2, !.a = ret], Frame("compile_expr", Top.node.right))
    /\ Same

\* lines 145-155: result_symbol?, get_instruction_from_bin_op?, add_instruction
Binary_Emit ==
    /\ At("compile_expr", "BinaryExpression", 2)
    /\ LET dst == result_symbol(context, Top.a, ret, Top.node.location)
           res == get_instruction_from_bin_op(Top.node.operator, dst.sym, Top.a, ret,
                                              Top.node.location)
       IN  IF ~dst.ok
           THEN /\ Fail(dst.err)
                /\ context' = dst.ctx
                /\ UNCHANGED allocated
           ELSE IF ~res.ok
           THEN /\ Fail(res.err)
                /\ Allocate(dst)
           ELSE IF ~HasOpenBlock(dst.ctx)
           THEN /\ Panic
                /\ Allocate(dst)
           ELSE /\ context' = add_instruction(dst.ctx, res.instr)
                /\ allocated' = Append(allocated, dst.sym.num)
                /\ Return(dst.sym)
    /\ UNCHANGED contracts

(***************************************************************************)
(* compile_expr, FunctionCallExpression (compiler.rs 157-170)              *)
(***************************************************************************)
Call_Name ==
    /\ At("compile_expr", "FunctionCallExpression", 0)
    /\ Call([Top EXCEPT !.pc = 1], Frame("compile_expr", Top.node.function_name))
    /\ Same

Call_Args ==
    /\ At("compile_expr", "FunctionCallExpression", 1)
    /\ Call([Top EXCEPT !.pc = 2, !.a = ret], Frame("compile_param", Top.node.arguments))
    /\ Same

Call_Emit ==
    /\ At("compile_expr", "FunctionCallExpression", 2)
    /\ LET res == temp_symbol(context)
       IN  /\ allocated' = Append(allocated, res.sym.num)
           /\ IF HasOpenBlock(res.ctx)
              THEN /\ context' = add_instruction(res.ctx, CallI(res.sym, Top.a, ret))
                   /\ Return(res.sym)
              ELSE /\ Panic
                   /\ context' = res.ctx
    /\ UNCHANGED contracts

(***************************************************************************)
(* compile_expr, IfExpression (compiler.rs 171-190)                        *)
(***************************************************************************)
If_Cond ==
    /\ At("compile_expr", "IfExpression", 0)
    /\ Call([Top EXCEPT !.pc = 1], Frame("compile_expr", Top.node.condition))
    /\ Same

If_Then ==
    /\ At("compile_expr", "IfExpression", 1)
    /\ Call([Top EXCEPT !.pc = 2, !.a = ret], Frame("compile_block", Top.node.if_expr))
    /\ Same

\* lines 178-183: If is emitted, then the else block is compiled
If_EmitThenElse ==
    /\ At("compile_expr", "IfExpression", 2)
    /\ Top.node.else_expr # NoExpr
    /\ IF HasOpenBlock(context)
       THEN /\ context' = add_instruction(context, IfI(Top.a, ret))
            /\ Call([Top EXCEPT !.pc = 3], Frame("compile_block", Top.node.else_expr))
       ELSE /\ Panic
            /\ UNCHANGED context
    /\ UNCHANGED <<contracts, allocated>>

\* lines 178-181, 189: If is emitted, there is no else
If_EmitExit ==
    /\ At("compile_expr", "IfExpression", 2)
    /\ Top.node.else_expr = NoExpr
    /\ IF HasOpenBlock(context)
       THEN LET t == temp_symbol(add_instruction(context, IfI(Top.a, ret)))
            IN  Allocate(t) /\ Return(t.sym)
       ELSE /\ Panic
            /\ UNCHANGED <<context, allocated>>
    /\ UNCHANGED contracts

\* lines 184-189
If_Else ==
    /\ At("compile_expr", "IfExpression", 3)
    /\ IF HasOpenBlock(context)
       THEN LET t == temp_symbol(add_instruction(context, ElseI(Top.a, ret)))
            IN  Allocate(t) /\ Return(t.sym)
       ELSE /\ Panic
            /\ UNCHANGED <<context, allocated>>
    /\ UNCHANGED contracts

(***************************************************************************)
(* compile_expr, ForEachExpression, and compile_range (191-206, 244-253)   *)
(***************************************************************************)
For_Iter ==
    /\ At("compile_expr", "ForEachExpression", 0)
    /\ Call([Top EXCEPT !.pc = 1], Frame("compile_expr", Top.node.iterator))
    /\ Same

compile_range(expr) ==
    IF expr.kind = "Range"
    THEN [ok |-> TRUE, start |-> expr.start, end |-> expr.end, err |-> NoError]
    ELSE [ok |-> FALSE, start |-> 0, end |-> 0,
          err |-> SyntaxError("Range Compile Error", expr.location)]

For_Range ==
    /\ At("compile_expr", "ForEachExpression", 1)
    /\ IF compile_range(Top.node.vector).ok
       THEN Call([Top EXCEPT !.pc = 2, !.a = ret], Frame("compile_block", Top.node.for_expr))
       ELSE Fail(compile_range(Top.node.vector).err)
    /\ Same

For_Emit ==
    /\ At("compile_expr", "ForEachExpression", 2)
    /\ LET r == compile_range(Top.node.vector)
       IN  IF HasOpenBlock(context)
           THEN LET t == temp_symbol(add_instruction(context,
                                                     ForI(Top.a, r.start, r.end, ret)))
                IN  Allocate(t) /\ Return(t.sym)
           ELSE /\ Panic
                /\ UNCHANGED <<context, allocated>>
    /\ UNCHANGED contracts

(***************************************************************************)
(* compile_expr, Literal, Number, Identifier and the rest (207-218)        *)
(***************************************************************************)
Expr_Literal ==
    /\ At("compile_expr", "Literal", 0)
    /\ Return(literal_symbol(Top.node.text))
    /\ Same

Expr_Number ==
    /\ At("compile_expr", "Number", 0)
    /\ Return(Symbol(to_string(Top.node.number), 0, "Uint"))
    /\ Same

Expr_Identifier ==
    /\ At("compile_expr", "Identifier", 0)
    /\ Return(get_symbol(context, Top.node.name))
    /\ Same

Expr_Unreachable ==
    /\ Running /\ Top.f = "compile_expr"
    /\ Top.node.kind \in {"Parameters", "Arguments", "Range"}
    /\ Fail(SyntaxError("Unreachable", Top.node.location))
    /\ Same

(***************************************************************************)
(* compile_param (compiler.rs 221-242)                                     *)
(***************************************************************************)
\* params / args after the push of the value just returned
Pushed == IF Top.pc = 0 THEN <<>> ELSE Append(Top.acc, ret)

Param_Stmt ==
    /\ Running /\ Top.f = "compile_param" /\ Top.node.kind = "Parameters"
    /\ Top.pc < Len(Top.node.parameters)
    /\ Call([Top EXCEPT !.pc = @ + 1, !.acc = Pushed],
            Frame("compile_stmt", Top.node.parameters[Top.pc + 1]))
    /\ Same

Param_Exit ==
    /\ Running /\ Top.f = "compile_param" /\ Top.node.kind = "Parameters"
    /\ Top.pc = Len(Top.node.parameters)
    /\ Return(Pushed)
    /\ Same

Arg_Expr ==
    /\ Running /\ Top.f = "compile_param" /\ Top.node.kind = "Arguments"
    /\ Top.pc < Len(Top.node.arguments)
    /\ Call([Top EXCEPT !.pc = @ + 1, !.acc = Pushed],
            Frame("compile_expr", Top.node.arguments[Top.pc + 1]))
    /\ Same

Arg_Exit ==
    /\ Running /\ Top.f = "compile_param" /\ Top.node.kind = "Arguments"
    /\ Top.pc = Len(Top.node.arguments)
    /\ Return(Pushed)
    /\ Same

Param_Error ==
    /\ Running /\ Top.f = "compile_param"
    /\ Top.node.kind \notin {"Parameters", "Arguments"}
    /\ Fail(SyntaxError("Unreachable", Top.node.location))
    /\ Same

(***************************************************************************)
(* compile_block (compiler.rs 255-275): pc 0 before add_block, pc k after  *)
(* k - 1 statements, pc Len + 2 after the return value                     *)
(***************************************************************************)
Block_Enter ==
    /\ At("compile_block", "CompoundExpression", 0)
    /\ context' = add_block(context)
    /\ stack' = [stack EXCEPT ![Len(stack)].pc = 1]
    /\ UNCHANGED <<program, ret, status, error, contracts, allocated>>

Block_Stmt ==
    /\ Running /\ Top.f = "compile_block" /\ Top.node.kind = "CompoundExpression"
    /\ Top.pc >= 1 /\ Top.pc <= Len(Top.node.statements)
    /\ Call([Top EXCEPT !.pc = @ + 1], Frame("compile_stmt", Top.node.statements[Top.pc]))
    /\ Same

Block_Return ==
    /\ Running /\ Top.f = "compile_block" /\ Top.node.kind = "CompoundExpression"
    /\ Top.pc = Len(Top.node.statements) + 1
    /\ Top.node.return_value # NoExpr
    /\ Call([Top EXCEPT !.pc = @ + 1], Frame("compile_expr", Top.node.return_value))
    /\ Same

Block_Exit ==
    /\ Running /\ Top.f = "compile_block" /\ Top.node.kind = "CompoundExpression"
    /\ Top.pc = Len(Top.node.statements) + (IF Top.node.return_value = NoExpr THEN 1 ELSE 2)
    /\ LET popped == pop_block(context)
       IN  /\ context' = popped.ctx
           /\ Return(popped.block)
    /\ UNCHANGED <<contracts, allocated>>

Block_Error ==
    /\ Running /\ Top.f = "compile_block" /\ Top.node.kind # "CompoundExpression"
    /\ Fail(SyntaxError("Block Compile Error", Top.node.location))
    /\ Same

(***************************************************************************)
(* The input trees.  compile_program is a function of its tree, so Init    *)
(* draws the tree; locations are chosen distinct where a claim reads them. *)
(***************************************************************************)
SeqsUpTo(S, n) == UNION {[1..k -> S] : k \in 0..n}

Id(l, n) == Identifier(l, n)
Decl(l, t, n, d) == InitializerStatement(l, t, Identifier(l, n), d)
ExprS(l, e) == ExpressionStatement(l, e)
Block(l, ss) == Compound(l, ss, NoExpr)

\* contract A { uint b; function f(params) { body } }
InFunction(params, body) ==
    <<ContractStatement(1, Id(1, "A"), MemberStatement(1, <<
        Decl(2, "Uint", "b", NoExpr),
        FunctionStatement(3, Id(3, "f"), Parameters(3, params), body, NoType)>>))>>

\* tests/test_compiler.rs: contract A { uint b; function f() { uint a = 0;
\* for i in 0..10 { a = a + 1; } } }, the loop parsed as the body's last
\* statement or as its trailing value
ForLoopOfTest ==
    ForEach(6, Id(6, "i"), Range(6, 0, 10),
            Block(7, <<ExprS(8, AssignE(8, Id(8, "a"),
                                        Binary(9, "Add", Id(9, "a"), Number(9, 1))))>>))

TestProgram(trailing) ==
    InFunction(<<>>,
        IF trailing
        THEN Compound(4, <<Decl(5, "Uint", "a", Number(5, 0))>>, ForLoopOfTest)
        ELSE Compound(4, <<Decl(5, "Uint", "a", Number(5, 0)), ExprS(6, ForLoopOfTest)>>,
                      NoExpr))

TestPrograms == {TestProgram(t) : t \in BOOLEAN}

\* operands of a binary expression at location l: literals, declared (a) and
\* undeclared (x, y) identifiers, and operands that emit instructions themselves
Atoms(l) ==
    {Number(l, n) : n \in 0..MaxNum}
      \cup {Literal(l, "s"), Literal(l, "1"), Id(l, "a"), Id(l, "x"), Id(l, "y")}

Operands(l) ==
    Atoms(l) \cup
    {Binary(l, "Add", Number(l + 1, 1), Number(l + 2, 1)),
     Binary(l, "Eq", Number(l + 1, 1), Literal(l + 2, "s")),
     IfE(l, Id(l + 1, "a"), Block(l + 2, <<>>), NoExpr)}

\* function f() { uint a; <l op r>; }
BinaryPrograms ==
    {InFunction(<<>>, Block(4, <<Decl(5, "Uint", "a", NoExpr),
                                 ExprS(10, Binary(10, op, l, r))>>)) :
        op \in Operators, l \in Operands(20), r \in Operands(30)}

\* a contract whose member list holds only declarations
MemberDecls ==
    {Decl(2, t, n, d) : t \in {"Uint", "Bool"}, n \in {"a", "b"},
                        d \in {NoExpr, Number(2, 1),
                               Binary(2, "Add", Number(2, 1), Literal(2, "s"))}}

MemberPrograms ==
    {<<ContractStatement(1, Id(1, "A"), MemberStatement(1, ds))>> :
        ds \in SeqsUpTo(MemberDecls, MaxDecls)}

\* function declarations with parameters, in a contract and inside a block
ParamDecls == {Decl(3, "Uint", "a", NoExpr), Decl(3, "Bool", "c", NoExpr)}

ParamBodies ==
    {Block(4, <<>>),
     Block(4, <<ExprS(5, Id(5, "a"))>>),
     Compound(4, <<>>, Binary(5, "Add", Id(5, "a"), Number(5, 1)))}

ParamPrograms ==
    {InFunction(ps, body) : ps \in SeqsUpTo(ParamDecls, MaxDecls), body \in ParamBodies}
      \cup
    {InFunction(<<>>, Block(4, <<
         FunctionStatement(6, Id(6, "g"), Parameters(6, ps), body, "Bool"),
         ExprS(7, Id(7, "a"))>>)) :
        ps \in SeqsUpTo(ParamDecls, MaxDecls), body \in ParamBodies}

\* a function declared inside a function body, followed by a declaration
NestedPrograms ==
    {InFunction(<<>>, Block(4, <<
         FunctionStatement(6, Id(6, "g"), Parameters(6, <<>>), Block(7, <<>>), NoType),
         Decl(8, "Uint", "a", d)>>)) :
        d \in {NoExpr, Number(8, 1)}}

\* contract and function names declared again, after another name
RedeclaredMembers ==
    {<<>>, <<Decl(2, "Uint", "b", NoExpr)>>,
     <<FunctionStatement(3, Id(3, "f"), Parameters(3, <<>>),
                         Block(4, <<Decl(5, "Uint", "a", NoExpr)>>), NoType)>>}

RedeclaredFunction(n, body, r) ==
    FunctionStatement(3, Id(3, n), Parameters(3, <<>>), body, r)

RedeclaredPrograms ==
    {<<ContractStatement(1, Id(1, "A"), MemberStatement(1, m1)),
       ContractStatement(1, Id(1, "B"), MemberStatement(1, <<>>)),
       ContractStatement(1, Id(1, n), MemberStatement(1, m3))>> :
        n \in {"A", "B", "C"}, m1 \in RedeclaredMembers, m3 \in RedeclaredMembers}
      \cup
    {<<ContractStatement(1, Id(1, "A"), MemberStatement(1, <<
          RedeclaredFunction("f", Block(4, <<Decl(5, "Uint", "a", NoExpr)>>), "Uint"),
          RedeclaredFunction("g", Block(4, <<>>), NoType),
          RedeclaredFunction(n, Block(4, <<>>), r)>>))>> :
        n \in {"f", "g", "h"}, r \in {NoType, "Bool"}}

\* statements of a function body: declarations, nested blocks, branches, loops
InnerBlocks ==
    {Block(11, <<Decl(12, "Bool", "a", NoExpr), ExprS(13, Id(13, "a"))>>),
     Block(11, <<ExprS(12, AssignE(12, Id(12, "a"),
                                   Binary(13, "Add", Id(13, "a"), Number(13, 1))))>>),
     Compound(11, <<Decl(12, "Uint", "i", Number(12, 0))>>, Id(13, "i"))}

BodyStmts ==
    {Decl(5, "Uint", "a", NoExpr), Decl(5, "Bool", "a", Literal(5, "s")),
     ExprS(5, Id(5, "a")),
     ExprS(5, AssignE(5, Id(5, "a"), Number(5, 1))),
     ExprS(5, AssignE(5, Id(5, "x"), Literal(5, "1"))),
     ExprS(5, FunctionCall(5, Id(5, "g"), Arguments(5, <<Id(5, "a"), Number(5, 1)>>)))}
      \cup {ExprS(5, b) : b \in InnerBlocks}
      \cup {ExprS(5, IfE(5, Id(5, "a"), b, Block(14, <<Decl(15, "Uint", "a", NoExpr)>>))) :
               b \in InnerBlocks}
      \cup {ExprS(5, IfE(5, Id(5, "a"), Block(11, <<>>), NoExpr)),
            ExprS(5, ForEach(5, Id(5, "i"), Range(5, 0, MaxNum), Block(11, <<>>)))}

BodyPrograms ==
    {InFunction(<<>>, Block(4, ss)) : ss \in SeqsUpTo(BodyStmts, MaxBody)}

\* global statement lists
TopStmts ==
    {Decl(1, "Uint", "a", NoExpr), Decl(1, "Uint", "a", Number(1, 1)),
     ExprS(1, Binary(1, "Add", Number(1, 1), Number(1, 1))),
     ExprS(1, AssignE(1, Id(1, "a"), Number(1, 1))),
     ExprS(1, Block(1, <<Decl(2, "Uint", "a", NoExpr)>>)),
     ExprS(1, IfE(1, Number(1, 1), Block(1, <<>>), NoExpr)),
     ExprS(1, ForEach(1, Id(1, "i"), Range(1, 0, 1), Block(1, <<>>))),
     FunctionStatement(1, Id(1, "g"), Parameters(1, <<>>), Block(1, <<>>), NoType),
     FunctionStatement(1, Id(1, "g"), Parameters(1, <<Decl(1, "Uint", "a", NoExpr)>>),
                       Block(1, <<>>), "Uint"),
     MemberStatement(1, <<Decl(1, "Uint", "a", NoExpr)>>)}
      \cup
    {ContractStatement(1, Id(1, n), MemberStatement(1, ms)) :
        n \in {"A", "B"},
        ms \in {<<Decl(2, "Uint", "b", NoExpr)>>,
                <<FunctionStatement(3, Id(3, "f"), Parameters(3, <<>>),
                                    Block(4, <<Decl(5, "Uint", "a", NoExpr)>>), NoType),
                  Decl(6, "Bool", "c", NoExpr)>>}}

TopPrograms == SeqsUpTo(TopStmts, MaxTop)

\* trees a correct parser does not produce: each reaches one defensive SyntaxError
MalformedPrograms ==
    {InFunction(<<>>, Block(4, <<ExprS(5, e)>>)) :
        e \in {ForEach(5, Id(5, "i"), Number(6, 1), Block(7, <<>>)),
               ForEach(5, Id(5, "i"), Range(6, 0, 1), Number(7, 1)),
               IfE(5, Number(5, 1), Number(7, 1), NoExpr),
               Range(5, 0, 1),
               Arguments(5, <<>>),
               FunctionCall(5, Id(5, "g"), Number(6, 1)),
               Binary(5, "Assign", Number(6, 1), Number(7, 1))}}
      \cup
    {<<ContractStatement(1, Id(1, "A"), MemberStatement(1, <<
          FunctionStatement(3, Id(3, "f"), Parameters(3, <<>>), Number(4, 1), NoType)>>))>>}

Programs ==
    TestPrograms \cup BinaryPrograms \cup MemberPrograms \cup ParamPrograms
      \cup BodyPrograms \cup TopPrograms \cup MalformedPrograms \cup NestedPrograms
      \cup RedeclaredPrograms

(***************************************************************************)
(* compile_program (compiler.rs 9-13): a fresh Compiler on the tree        *)
(***************************************************************************)
Init ==
    /\ program \in Programs
    /\ contracts = EmptyMap
    /\ context = NewContext
    /\ stack = <<Frame("compile_program", [kind |-> "Program", statements |-> program])>>
    /\ ret = NoSymbol
    /\ status = "running"
    /\ error = NoError
    /\ allocated = <<>>

Next ==
    \/ Program_Stmt \/ Program_Done
    \/ Function_Enter \/ Function_Params \/ Function_Body \/ Function_Exit
    \/ Contract_Enter \/ Contract_Members \/ Contract_Exit
    \/ Init_Enter \/ Init_Member \/ Init_Default \/ Init_Assign \/ Init_Plain
    \/ Member_Stmt \/ Member_Exit \/ Stmt_Expression
    \/ Compound_Enter \/ Compound_Exit
    \/ Assign_Left \/ Assign_Right \/ Assign_Emit
    \/ Binary_Left \/ Binary_Right \/ Binary_Emit
    \/ Call_Name \/ Call_Args \/ Call_Emit
    \/ If_Cond \/ If_Then \/ If_EmitThenElse \/ If_EmitExit \/ If_Else
    \/ For_Iter \/ For_Range \/ For_Emit
    \/ Expr_Literal \/ Expr_Number \/ Expr_Identifier \/ Expr_Unreachable
    \/ Param_Stmt \/ Param_Exit \/ Arg_Expr \/ Arg_Exit \/ Param_Error
    \/ Block_Enter \/ Block_Stmt \/ Block_Return \/ Block_Exit \/ Block_Error

Spec == Init /\ [][Next]_vars

(***************************************************************************)
(* Claims.                                                                 *)
(***************************************************************************)
Finished == status # "running"

OpenBlock == context.current_codes[Len(context.current_codes)]

SymA == Symbol("a", 0, "Uint")

\* C1: compiling the tree of tests/test_compiler.rs succeeds with exactly one
\* contract A, whose members hold b typed Uint and whose functions hold f with
\* the body [InitAssign{a,0}, For{i,0,10,[Add{t,a,1}, Assign{a,t}]}], t being
\* one allocated temporary used in both instructions.
C1_TestProgramCompiles ==
    (program \in TestPrograms /\ Finished) =>
        /\ status = "ok"
        /\ MapKeys(contracts) = <<"A">>
        /\ LET c == MapGet(contracts, "A")
           IN  /\ MapHas(c.member, "b")
               /\ MapGet(c.member, "b") = Symbol("b", 0, "Uint")
               /\ MapHas(c.functions, "f")
               /\ \E n \in 1..context.temp_number :
                    LET t == Symbol("", n, "Uint")
                    IN  /\ n \in {allocated[k] : k \in 1..Len(allocated)}
                        /\ MapGet(c.functions, "f").codes =
                             <<InitAssignI(SymA, Symbol("0", 0, "Uint")),
                               ForI(Symbol("i", 0, "Undefined"), 0, 10,
                                    <<[op |-> "Add", dst |-> t, left |-> SymA,
                                       right |-> Symbol("1", 0, "Uint")],
                                      AssignI(SymA, t)>>)>>

C1_Witness == program \in TestPrograms /\ status = "ok"

\* the step that finishes a binary expression: both operands are compiled,
\* the left one is in the frame, the right one was just returned
AtBinaryEmit == At("compile_expr", "BinaryExpression", 2)

\* C2: a binary expression with one of the operators that have an instruction,
\* whose compiled operands have the same type T, appends (a Block being open)
\* exactly one instruction to the open Block: of the operator's kind, with the
\* compiled operands as left and right in that order and a fresh temporary of
\* type T as destination, which is the expression's value.
C2_BinaryEmitsOneInstruction ==
    [][(/\ AtBinaryEmit
        /\ Top.node.operator \in BinaryInstructions
        /\ Top.a.typ = ret.typ
        /\ HasOpenBlock(context))
       => /\ status' = "running"
          /\ context'.tables = context.tables
          /\ context'.current_codes =
               [context.current_codes EXCEPT ![Len(context.current_codes)] =
                   Append(@, [op |-> Top.node.operator, dst |-> ret',
                              left |-> Top.a, right |-> ret])]
          /\ ret'.typ = ret.typ
          /\ ret'.num = context'.temp_number
          /\ \A k \in 1..Len(allocated) : allocated[k] # ret'.num
          /\ allocated' = Append(allocated, ret'.num)
          /\ stack' = SubSeq(stack, 1, Len(stack) - 1)]_vars

\* a binary instruction is the last of the open Block and its destination is
\* the value just returned
C2_Witness ==
    /\ Running /\ HasOpenBlock(context) /\ OpenBlock # <<>>
    /\ OpenBlock[Len(OpenBlock)].op \in BinaryInstructions
    /\ OpenBlock[Len(OpenBlock)].dst = ret
    /\ OpenBlock[Len(OpenBlock)].left.typ = ret.typ
    /\ ret.typ = "String"

TypeError(loc) ==
    [kind |-> "TypeError", msg |-> "Binary operation Type Error", location |-> loc]

\* C3 as claimed: operands of different types make the compilation fail with a
\* TypeError at the binary expression's location, and the open Block holds the
\* instructions it held before the binary expression was compiled.
C3_NothingEmittedSinceEntry ==
    [][(AtBinaryEmit /\ Top.a.typ # ret.typ)
       => /\ status' = "err"
          /\ error' = TypeError(Top.node.location)
          /\ OpenLen(context') = Top.entry]_vars

\* C3 as amended: operands of different types make the compilation fail with a
\* TypeError at the binary expression's location, and the failing expression
\* itself emits nothing: the context is as it was once the operands had been
\* compiled (what the operands emitted stays in the open Block).
C3_TypeErrorEmitsNothing ==
    [][(AtBinaryEmit /\ Top.a.typ # ret.typ)
       => /\ status' = "err"
          /\ error' = TypeError(Top.node.location)
          /\ context' = context
          /\ contracts' = contracts
          /\ allocated' = allocated]_vars

\* the type check failed on an operand that had emitted an instruction
C3_Witness ==
    /\ status = "err" /\ error.kind = "TypeError"
    /\ stack # <<>> /\ Top.node.kind = "BinaryExpression"
    /\ Top.a.typ # ret.typ
    /\ OpenLen(context) > Top.entry

\* C4: every temporary gets a disambiguator greater than every one allocated
\* before it in the same compile_program call, and no step decreases the counter.
C4_TemporariesIncrease ==
    [][/\ context'.temp_number >= context.temp_number
       /\ Len(allocated') >= Len(allocated)
       /\ \A k \in 1..Len(allocated) : allocated'[k] = allocated[k]
       /\ \A k \in (Len(allocated) + 1)..Len(allocated') :
            /\ allocated'[k] <= context'.temp_number
            /\ \A j \in 1..(k - 1) : allocated'[j] < allocated'[k]]_vars

\* temporaries were allocated before and after a scope was left
C4_Witness ==
    /\ status = "ok"
    /\ Len(allocated) >= 4
    /\ \E i \in 1..Len(contracts) :
         \E j \in 1..Len(contracts[i].value.functions) :
            \E k \in 1..Len(contracts[i].value.functions[j].value.codes) :
               contracts[i].value.functions[j].value.codes[k].op = "If"

\* a contract declaration whose member list holds only variable declarations
OnlyDeclarations(s) ==
    /\ s.kind = "ContractStatement"
    /\ s.contract_name.kind = "Identifier"
    /\ s.members.kind = "MemberStatement"
    /\ \A k \in 1..Len(s.members.statements) :
         /\ s.members.statements[k].kind = "InitializerStatement"
         /\ s.members.statements[k].variable.kind = "Identifier"

OnlyDeclarationContracts ==
    program # <<>> /\ \A i \in 1..Len(program) : OnlyDeclarations(program[i])

\* the last declaration of its contract name in the global statement list
LastOfItsName(i) ==
    \A j \in (i + 1)..Len(program) :
        program[j].contract_name.name # program[i].contract_name.name

DeclNames(ds) == [k \in 1..Len(ds) |-> ds[k].variable.name]

\* the first occurrence of each element, in order
FirstOccurrences(seq) ==
    LET F[k \in 0..Len(seq)] ==
            IF k = 0 THEN <<>>
            ELSE IF \E j \in 1..(k - 1) : seq[j] = seq[k] THEN F[k - 1]
            ELSE Append(F[k - 1], seq[k])
    IN  F[Len(seq)]

LastDeclOf(ds, name) ==
    ds[CHOOSE k \in 1..Len(ds) :
          /\ ds[k].variable.name = name
          /\ \A j \in (k + 1)..Len(ds) : ds[j].variable.name # name]

Undeclared(ctx, name) == \A k \in 1..Len(ctx.tables) : ~MapHas(ctx.tables[k], name)

\* C6: an identifier declared in no open scope resolves without error and
\* without a change of the compiler's state to {name, 0, Undefined}, and a
\* binary expression with such an operand fails with a TypeError.
C6_UndeclaredFailsAtBinary ==
    [][/\ (At("compile_expr", "Identifier", 0) /\ Undeclared(context, Top.node.name))
          => /\ ret' = Symbol(Top.node.name, 0, "Undefined")
             /\ status' = "running"
             /\ context' = context /\ contracts' = contracts
       /\ (/\ AtBinaryEmit
           /\ \/ Top.node.left.kind = "Identifier" /\ Top.a.typ = "Undefined"
              \/ Top.node.right.kind = "Identifier" /\ ret.typ = "Undefined")
          => status' = "err" /\ error'.kind = "TypeError"]_vars

\* C7: when compile_program returns successfully the scope stack and the
\* open-Block stack are both empty.
C7_StacksEmptyOnSuccess ==
    status = "ok" => context.tables = <<>> /\ context.current_codes = <<>>

\* a program with a block nested in a function body compiled successfully
C7_Witness ==
    /\ status = "ok"
    /\ \E i \in 1..Len(contracts) :
         \E j \in 1..Len(contracts[i].value.functions) :
            \E k \in 1..Len(contracts[i].value.functions[j].value.codes) :
               /\ contracts[i].value.functions[j].value.codes[k].op = "For"
               /\ contracts[i].value.functions[j].value.codes[k].block # <<>>

(***************************************************************************)
(* The input contract: the tree shapes a correct parser produces.          *)
(***************************************************************************)
RECURSIVE WfExpr(_)
RECURSIVE WfStmt(_)

WfBlock(e) == e.kind = "CompoundExpression" /\ WfExpr(e)

WfExpr(e) ==
    CASE e.kind = "CompoundExpression" ->
            /\ \A k \in 1..Len(e.statements) : WfStmt(e.statements[k])
            /\ e.return_value = NoExpr \/ WfExpr(e.return_value)
      [] e.kind = "AssignExpression" -> WfExpr(e.left) /\ WfExpr(e.right)
      [] e.kind = "BinaryExpression" ->
            e.operator \in BinaryInstructions /\ WfExpr(e.left) /\ WfExpr(e.right)
      [] e.kind = "FunctionCallExpression" ->
            /\ e.function_name.kind = "Identifier"
            /\ e.arguments.kind = "Arguments"
            /\ \A k \in 1..Len(e.arguments.arguments) : WfExpr(e.arguments.arguments[k])
      [] e.kind = "IfExpression" ->
            /\ WfExpr(e.condition) /\ WfBlock(e.if_expr)
            /\ e.else_expr = NoExpr \/ WfBlock(e.else_expr)
      [] e.kind = "ForEachExpression" ->
            e.iterator.kind = "Identifier" /\ e.vector.kind = "Range" /\ WfBlock(e.for_expr)
      [] e.kind \in {"Literal", "Number", "Identifier"} -> TRUE
      [] OTHER -> FALSE

WfDecl(s) ==
    /\ s.kind = "InitializerStatement"
    /\ s.variable_type \in AstTypes
    /\ s.variable.kind = "Identifier"
    /\ s.default = NoExpr \/ WfExpr(s.default)

WfStmt(s) ==
    CASE s.kind = "FunctionStatement" ->
            /\ s.function_name.kind = "Identifier"
            /\ s.parameters.kind = "Parameters"
            /\ \A k \in 1..Len(s.parameters.parameters) : WfDecl(s.parameters.parameters[k])
            /\ WfBlock(s.expr)
      [] s.kind = "ContractStatement" ->
            /\ s.contract_name.kind = "Identifier"
            /\ s.members.kind = "MemberStatement" /\ WfStmt(s.members)
      [] s.kind = "InitializerStatement" -> WfDecl(s)
      [] s.kind = "MemberStatement" -> \A k \in 1..Len(s.statements) : WfStmt(s.statements[k])
      [] s.kind = "Expression" -> WfExpr(s.expression)
      [] OTHER -> FALSE

WellFormed(prog) == \A i \in 1..Len(prog) : WfStmt(prog[i])

\* C8: on a well-formed tree compile_program returns the contracts or one
\* CompileError; no compiling operation aborts in another way.
C8_NoAbort == WellFormed(program) => status # "panic"

\* the index in context.tables of the scope that the compile_block call of
\* frame k opened: add_block and pop_block pair with that call
ScopeOf(k) ==
    Cardinality({j \in 1..k : stack[j].f = "compile_block" /\ stack[j].pc >= 1})

\* a parameter declaration is being compiled: compile_stmt called by compile_param
InParameter ==
    /\ Len(stack) >= 2
    /\ Top.f = "compile_stmt"
    /\ stack[Len(stack) - 1].f = "compile_param"
    /\ stack[Len(stack) - 1].node.kind = "Parameters"

\* C9: a function declaration with parameters compiles; each parameter is
\* declared, with its declared type, in the scope opened for the function's
\* body, and its name resolves there to the parameter's symbol.
C9_ParametersInFunctionScope ==
    /\ status = "panic" => ~InParameter
    /\ \A k \in 2..Len(stack) :
         (/\ stack[k].f = "compile_block" /\ stack[k].pc >= 1
          /\ stack[k - 1].f = "compile_stmt"
          /\ stack[k - 1].node.kind = "FunctionStatement"
          /\ stack[k - 1].node.parameters.kind = "Parameters")
         => \A p \in 1..Len(stack[k - 1].acc) :
              LET sym == stack[k - 1].acc[p]
                  decl == stack[k - 1].node.parameters.parameters[p]
              IN  /\ sym.typ = get_type(decl.variable_type)
                  /\ MapHas(context.tables[ScopeOf(k)], sym.id)
                  /\ stack[k].pc = 1 => get_symbol(context, sym.id) = sym

RECURSIVE InstrSymbols(_)

BlockSymbols(b) == UNION {InstrSymbols(b[k]) : k \in 1..Len(b)}

\* the symbols an instruction names, those of its nested Block included
InstrSymbols(i) ==
    CASE i.op \in BinaryInstructions -> {i.dst, i.left, i.right}
      [] i.op = "Assign" -> {i.dst, i.src}
      [] i.op = "Init" -> {i.name}
      [] i.op = "InitAssign" -> {i.name, i.src}
      [] i.op \in {"If", "Else"} -> {i.cond} \cup BlockSymbols(i.block)
      [] i.op = "For" -> {i.iter} \cup BlockSymbols(i.block)
      [] i.op = "Call" -> {i.dst, i.func} \cup {i.args[k] : k \in 1..Len(i.args)}

ContractSymbols(c) ==
    {c.member[k].value : k \in 1..Len(c.member)}
      \cup UNION {{c.functions[k].value.params[j] : j \in 1..Len(c.functions[k].value.params)}
                    \cup BlockSymbols(c.functions[k].value.codes) :
                  k \in 1..Len(c.functions)}

\* the symbols produced so far: in the open Blocks and in the contracts
AllSymbols ==
    UNION {BlockSymbols(context.current_codes[k]) : k \in 1..Len(context.current_codes)}
      \cup UNION {ContractSymbols(contracts[k].value) : k \in 1..Len(contracts)}

\* C10: two symbols produced during one compile_program call that have the
\* same id and the same disambiguator have the same type.
C10_SameNameSameType ==
    \A s \in AllSymbols : \A t \in AllSymbols :
        (s.id = t.id /\ s.num = t.num) => s.typ = t.typ

\* a declaration of a function's parameter list or body is being compiled
InFunctionDeclaration ==
    \E k \in 1..Len(stack) :
        stack[k].f = "compile_stmt" /\ stack[k].node.kind = "FunctionStatement"

\* the step in which compile_stmt ends for a variable declaration
DeclarationEnds ==
    /\ Running /\ Top.f = "compile_stmt" /\ Top.node.kind = "InitializerStatement"
    /\ status' # "running" \/ Len(stack') < Len(stack)

\* C11: while a function declaration is compiled the member flag is false: a
\* declaration in its parameter list or body is inserted into no contract's
\* members and appends Init or InitAssign to the open Block instead; when the
\* function declaration ends the flag is true again.
C11_FunctionDeclarationsAreLocal ==
    [][/\ (InFunctionDeclaration /\ DeclarationEnds)
           => /\ ~context.is_member
              /\ contracts' = contracts
              /\ status' = "running"
              /\ HasOpenBlock(context)
              /\ Len(context'.current_codes) = Len(context.current_codes)
              /\ Len(OpenBlock') = Len(OpenBlock) + 1
              /\ OpenBlock'[Len(OpenBlock')].op \in {"Init", "InitAssign"}
              /\ OpenBlock'[Len(OpenBlock')].name = ret'
       /\ (At("compile_stmt", "FunctionStatement", 3) /\ Len(stack') < Len(stack))
           => context'.is_member]_vars

\* the iteration variable of a loop is being compiled: the innermost call
\* was made by compile_expr for a ForEachExpression, for its iterator
IteratorCompiled ==
    /\ Running /\ Len(stack) >= 2
    /\ stack[Len(stack) - 1].f = "compile_expr"
    /\ stack[Len(stack) - 1].node.kind = "ForEachExpression"
    /\ stack[Len(stack) - 1].pc = 1

\* the body of a loop is being compiled: frame k is the compile_block call
\* made by compile_expr for a ForEachExpression
LoopBody(k) ==
    /\ stack[k].f = "compile_block" /\ stack[k].pc >= 1
    /\ stack[k - 1].f = "compile_expr"
    /\ stack[k - 1].node.kind = "ForEachExpression"

\* C12: for a loop over a literal range the loop's scope is entered before the
\* iteration variable is compiled, the variable belongs to the loop's scope
\* while the body is compiled, and exactly one For{iterator, start, end,
\* block} is appended to the enclosing Block.
C12_IteratorInLoopScope ==
    [][/\ IteratorCompiled => Len(context.tables) > ScopeOf(Len(stack) - 1)
       /\ \A k \in 2..Len(stack) :
             LoopBody(k) => MapHas(context.tables[ScopeOf(k)], stack[k - 1].node.iterator.name)
       /\ (At("compile_expr", "ForEachExpression", 2) /\ HasOpenBlock(context))
           => context'.current_codes =
                [context.current_codes EXCEPT ![Len(context.current_codes)] =
                    Append(@, ForI(Top.a, Top.node.vector.start, Top.node.vector.end, ret))]
      ]_vars

\* a contract declaration whose name already has an entry is about to be registered
ContractRedeclared ==
    At("compile_stmt", "ContractStatement", 1) /\ MapHas(contracts, ret.id)

\* a function declaration whose name already has an entry in the current
\* contract is about to be registered
FunctionRedeclared ==
    /\ At("compile_stmt", "FunctionStatement", 3)
    /\ context.current_contract.some
    /\ MapHas(MapGet(contracts, context.current_contract.name).functions, Top.a.id)

\* the entry of the re-declared name is replaced and every other entry is kept
ContractReplaced ==
    /\ status' = "running"
    /\ Len(contracts') = Len(contracts)
    /\ MapGet(contracts', ret.id) = NewContract
    /\ \A i \in 1..Len(contracts) :
         contracts[i].key # ret.id => contracts[i] \in {contracts'[j] : j \in 1..Len(contracts')}

FunctionReplaced ==
    LET cn == context.current_contract.name
        before == MapGet(contracts, cn).functions
        after == MapGet(contracts', cn).functions
    IN  /\ status' = "running"
        /\ MapKeys(contracts') = MapKeys(contracts)
        /\ Len(after) = Len(before)
        /\ MapGet(after, Top.a.id) = NewFunction(Top.acc, ReturnType(Top.node.returns), ret)
        /\ \A i \in 1..Len(before) :
             before[i].key # Top.a.id => before[i] \in {after[j] : j \in 1..Len(after)}

\* C13 as stated: a contract or function declaration whose name already has
\* an entry raises no error and replaces the entry (a contract starts empty
\* again), and the name leaves the position of its first occurrence: it is
\* where a new insertion puts it, after the other names.
C13_FirstPositionLost ==
    [][LET Reinserted(keys, k) ==
               LET Other(x) == x # k IN Append(SelectSeq(keys, Other), k)
           cn == context.current_contract.name
       IN  /\ ContractRedeclared
               => /\ ContractReplaced
                  /\ MapKeys(contracts') = Reinserted(MapKeys(contracts), ret.id)
           /\ FunctionRedeclared
               => /\ FunctionReplaced
                  /\ MapKeys(MapGet(contracts', cn).functions)
                       = Reinserted(MapKeys(MapGet(contracts, cn).functions), Top.a.id)
      ]_vars

\* C13, amended: a contract or function declaration whose name already has
\* an entry raises no error and replaces the entry (a contract starts empty
\* again), and the name keeps the position of its first occurrence.
C13_FirstPositionKept ==
    [][/\ ContractRedeclared
           => /\ ContractReplaced
              /\ MapKeys(contracts') = MapKeys(contracts)
       /\ FunctionRedeclared
           => /\ FunctionReplaced
              /\ MapKeys(MapGet(contracts', context.current_contract.name).functions)
                   = MapKeys(MapGet(contracts, context.current_contract.name).functions)
      ]_vars

\* contract A, contract B, contract A again was compiled: A is still first
\* and holds only what its second declaration declared
C13_Witness ==
    /\ status = "ok"
    /\ Len(program) = 3
    /\ program[1].contract_name.name = "A"
    /\ program[3].contract_name.name = "A"
    /\ program[1].members.statements # <<>>
    /\ program[3].members.statements = <<>>
    /\ MapKeys(contracts) = <<"A", "B">>
    /\ MapGet(contracts, "A") = NewContract

\* compile_stmt ends for a local variable declaration: the flag is false and
\* a Block and a symbol table are open
LocalDeclarationEnds ==
    /\ DeclarationEnds
    /\ ~context.is_member
    /\ HasOpenBlock(context) /\ HasOpenTable(context)

\* C14: a local declaration with declared type T declares in the innermost
\* scope a symbol of type T, names it in the emitted Init / InitAssign and
\* makes lookups of the name return it, whatever an enclosing scope declares
\* for the name; when a scope is left, lookups return what the enclosing
\* scopes declare.
C14_DeclaredTypeWins ==
    [][/\ LocalDeclarationEnds
           => LET T == get_type(Top.node.variable_type)
                  name == Top.node.variable.name
              IN  /\ status' = "running"
                  /\ ret'.typ = T
                  /\ MapHas(context'.tables[Len(context'.tables)], name)
                  /\ MapGet(context'.tables[Len(context'.tables)], name) = ret'
                  /\ get_symbol(context', name) = ret'
                  /\ OpenBlock'[Len(OpenBlock')].op \in {"Init", "InitAssign"}
                  /\ OpenBlock'[Len(OpenBlock')].name = ret'
       /\ (Running /\ Top.f = "compile_block" /\ Len(stack') < Len(stack))
           => \A n \in {"a", "b", "c", "i", "x", "y"} :
                get_symbol(context', n) = LookupFrom(context.tables, Len(context.tables) - 1, n)
      ]_vars

====
